---- MODULE Spec2Model ----
(***************************************************************************)
(* A model of the copy-on-write file library COWFS (src/cow_library.py)    *)
(* and of the version reader obtener_contenido_version (src/main.py).      *)
(*                                                                         *)
(* The state is the storage root on disk (the block directory, the         *)
(* metadata directory, the base .txt files), the external files a session  *)
(* can be opened on, and the in-memory table open_files.  Every public     *)
(* method of COWFS that changes state is one action.  Timestamps, the      *)
(* filename field of a record and the write-only log file cowfs.log are    *)
(* left out: no operation reads them back.                                 *)
(*                                                                         *)
(* Python's 0-based lists are 1-based sequences here: the version with     *)
(* index i is versions[i + 1].  current_version keeps the source's value   *)
(* (-1 for "no version").                                                  *)
(***************************************************************************)
EXTENDS Integers, Sequences, FiniteSets, TLC

\* self.block_size: 4 * 1024 in the source, scaled down to 2 bytes so that
\* full blocks, partial blocks and multi-block writes all occur.
block_size == 2

\* Bounds of the model.
MaxLen == 3        \* longest byte string passed to write
MaxVersions == 2   \* Spec: write is taken only while the chain has fewer versions
MaxChain == 4      \* SpecChain: the same, for the runs of writes and undos
MaxBlocks == 3     \* block identifiers are 1..MaxBlocks (uuid4 never repeats)

Files == {"f"}               \* one logical file; block ids are never shared
Paths == {"p", "q"}          \* "q" is a path at which no file exists
\* The byte strings handed to write: one of each length 0..MaxLen, bytes
\* alternating so that a reordering shows.
Data(n) == [i \in 1..n |-> IF i % 2 = 1 THEN 1 ELSE 2]
DataSet == {Data(n) : n \in 0..MaxLen}
\* The file at path "p" holds one full block and one partial block.
ExternalContent == <<2, 1, 2>>

VARIABLES
    blocks,      \* <root>/data: block id -> bytes of <id>.block
    nextId,      \* the next identifier uuid.uuid4() hands out
    meta,        \* <root>/metadata: filename -> the record in <filename>.json
    txt,         \* <root>/<filename>.txt: filename -> bytes
    ext,         \* files outside the root: path -> bytes
    open_files,  \* self.open_files: filename -> file_info
    last,        \* the last call: its name, arguments and what it returned
    trip         \* how far a sequence create; open; write; read on a new file
                 \* has come (stage 0..4), and the bytes its write was given

vars == <<blocks, nextId, meta, txt, ext, open_files, last, trip>>

Min(a, b) == IF a < b THEN a ELSE b
Max(a, b) == IF a > b THEN a ELSE b

\* dict[k] = v and del dict[k]
Put(fn, k, v) == [x \in DOMAIN fn \cup {k} |-> IF x = k THEN v ELSE fn[x]]
Remove(fn, k) == [x \in DOMAIN fn \ {k} |-> fn[x]]
EmptyDir == [x \in {} |-> <<>>]

\* Python's s[a:b], negative indices counted from the end.
PyIndex(i, n) == IF i < 0 THEN Max(i + n, 0) ELSE Min(i, n)
PySlice(s, a, b) ==
    LET lo == PyIndex(a, Len(s))
        hi == PyIndex(b, Len(s))
    IN  IF lo >= hi THEN <<>> ELSE SubSeq(s, lo + 1, hi)

\* Python's list[i], a negative i counted from the end.
PyItem(list, i) == IF i < 0 THEN list[Len(list) + i + 1] ELSE list[i + 1]

\* The metadata dictionary create() writes.
EmptyMetadata ==
    [versions |-> <<>>, current_version |-> -1, size |-> 0, blocks |-> <<>>]

\* The chunk loop with the rest of data taken one byte too far.
RECURSIVE SplitBlocksSkip(_)
SplitBlocksSkip(data) ==
    IF data = <<>>
    THEN [chunks |-> <<>>, data |-> data]
    ELSE LET write_size == Min(Len(data), block_size)
             rest == SplitBlocksSkip(PySlice(data, write_size + 1, Len(data)))
         IN  [chunks |-> <<PySlice(data, 0, write_size)>> \o rest.chunks,
              data |-> rest.data]

\* The loop "while data: ..." of write() and open(): the chunks handed to
\* _write_block, in order, and what is left of data when the loop ends.
RECURSIVE SplitBlocks(_)
SplitBlocks(data) ==
    IF data = <<>>
    THEN [chunks |-> <<>>, data |-> data]
    ELSE LET write_size == Min(Len(data), block_size)
             rest == SplitBlocks(PySlice(data, write_size, Len(data)))
         IN  [chunks |-> <<PySlice(data, 0, write_size)>> \o rest.chunks,
              data |-> rest.data]

\* _write_block for each chunk: the k-th chunk is stored under first + k - 1.
NewIds(first, n) == [k \in 1..n |-> first + k - 1]
WriteBlocks(store, first, chunks) ==
    [b \in DOMAIN store \cup {first + k - 1 : k \in 1..Len(chunks)} |->
        IF b \in DOMAIN store THEN store[b] ELSE chunks[b - first + 1]]

\* get_block_size: the length of a stored block.
get_block_size(store, block_id) == Len(store[block_id])

\* sum(self.get_block_size(block) for block in blocks)
RECURSIVE SumBlockSizes(_, _)
SumBlockSizes(store, blks) ==
    IF blks = <<>> THEN 0
    ELSE get_block_size(store, Head(blks)) + SumBlockSizes(store, Tail(blks))

\* The block walk of read() and of obtener_contenido_version(): ok is FALSE
\* when a block file is missing.
RECURSIVE ReadBlocks(_, _, _, _, _)
ReadBlocks(store, blks, start, end, current_position) ==
    IF blks = <<>>
    THEN [ok |-> TRUE, content |-> <<>>]
    ELSE IF Head(blks) \notin DOMAIN store
    THEN [ok |-> FALSE, content |-> <<>>]
    ELSE LET block_data == store[Head(blks)]
             block_start == Max(0, start - current_position)
             block_end == Min(Len(block_data), end - current_position)
             rest == ReadBlocks(store, Tail(blks), start, end,
                                current_position + Len(block_data))
         IN  IF rest.ok
             THEN [ok |-> TRUE,
                   content |-> PySlice(block_data, block_start, block_end)
                               \o rest.content]
             ELSE rest

\* obtener_contenido_version: the bytes of version i (0-based) of a record.
VersionContent(store, metadata, i) ==
    LET version_data == PyItem(metadata.versions, i)
    IN  ReadBlocks(store, version_data.blocks, version_data.start,
                   version_data.end, 0)

\* read falling back to the persisted record when the file is not open.
ReadContentPersisted(sessions, store, f) ==
    LET known == IF f \in DOMAIN sessions THEN {sessions[f].metadata}
                 ELSE IF f \in DOMAIN meta THEN {meta[f]} ELSE {}
    IN  IF known = {} THEN <<>>
        ELSE LET metadata == CHOOSE m \in known : TRUE
                 current_version_idx == metadata.current_version
             IN  IF current_version_idx < 0 THEN <<>>
                 ELSE LET r == VersionContent(store, metadata, current_version_idx)
                      IN  IF r.ok THEN r.content ELSE <<>>

\* read returning the bytes from the session cursor onward.
ReadContentFromCursor(sessions, store, f) ==
    IF f \notin DOMAIN sessions THEN <<>>
    ELSE LET metadata == sessions[f].metadata
             current_version_idx == metadata.current_version
         IN  IF current_version_idx < 0 THEN <<>>
             ELSE LET r == VersionContent(store, metadata, current_version_idx)
                  IN  IF r.ok
                      THEN PySlice(r.content, sessions[f].position,
                                   Len(r.content))
                      ELSE <<>>

\* What read(filename) returns in a state with this session table and store.
ReadContent(sessions, store, f) ==
    IF f \notin DOMAIN sessions THEN <<>>
    ELSE LET metadata == sessions[f].metadata
             current_version_idx == metadata.current_version
         IN  IF current_version_idx < 0 THEN <<>>
             ELSE LET r == VersionContent(store, metadata, current_version_idx)
                  IN  IF r.ok THEN r.content ELSE <<>>

\* The record of a call: ok says that it returned success (True, the bytes
\* read, a byte count), raised that it ended in an exception; n is the number
\* write returned, out the bytes read returned, pre the bytes read would have
\* returned just before a write (kept by the undo that directly follows it,
\* which sets follows_write).
NoCall ==
    [op |-> "init", filename |-> "", data |-> <<>>, ok |-> TRUE,
     raised |-> FALSE, n |-> 0, out |-> <<>>, pre |-> <<>>,
     overwrite |-> FALSE, follows_write |-> FALSE]

NoTrip == [stage |-> 0, data |-> <<>>]

Call(op, f, ok) == [NoCall EXCEPT !.op = op, !.filename = f, !.ok = ok]

Init ==
    /\ blocks = EmptyDir
    /\ nextId = 1
    /\ meta = EmptyDir
    /\ txt = EmptyDir
    /\ ext = [x \in {"p"} |-> ExternalContent]
    /\ open_files = EmptyDir
    /\ last = NoCall
    /\ trip = NoTrip

\* The test with the overwrite flag forgotten.
KeepsExistingAlways(exists, overwrite) == exists

\* create(): "if os.path.exists(txt_path): if not overwrite:", the case in
\* which the existing files are kept.
KeepsExisting(exists, overwrite) == exists /\ ~overwrite

\* create(filename, overwrite)
create(f, overwrite) ==
    /\ IF KeepsExisting(f \in DOMAIN txt, overwrite)
       THEN /\ meta' = IF f \notin DOMAIN meta
                       THEN Put(meta, f, EmptyMetadata)
                       ELSE meta
            /\ txt' = txt
       ELSE \* the existing files, if any, are removed and written anew
            /\ meta' = Put(meta, f, EmptyMetadata)
            /\ txt' = Put(txt, f, <<>>)
    /\ last' = [Call("create", f, TRUE) EXCEPT !.overwrite = overwrite]
    /\ trip' = IF f \notin DOMAIN txt /\ f \notin DOMAIN meta
               THEN [NoTrip EXCEPT !.stage = 1] ELSE NoTrip
    /\ UNCHANGED <<blocks, nextId, ext, open_files>>

\* open(filename, file_path) with a file_path
open_external(f, file_path) ==
    IF file_path \notin DOMAIN ext
    THEN /\ last' = Call("open", f, FALSE)
         /\ trip' = NoTrip
         /\ UNCHANGED <<blocks, nextId, meta, txt, ext, open_files>>
    ELSE LET split == SplitBlocks(ext[file_path])
             n == Len(split.chunks)
             ids == NewIds(nextId, n)
             store == WriteBlocks(blocks, nextId, split.chunks)
             total == SumBlockSizes(store, ids)
             metadata ==
                 [versions |-> <<[version |-> 0, blocks |-> ids, start |-> 0,
                                  end |-> total, size |-> total]>>,
                  current_version |-> 0, size |-> total, blocks |-> ids]
         IN  /\ nextId + n - 1 <= MaxBlocks
             /\ blocks' = store
             /\ nextId' = nextId + n
             /\ meta' = Put(meta, f, metadata)
             /\ open_files' = Put(open_files, f,
                    [metadata |-> metadata, position |-> metadata.size,
                     external_file |-> TRUE, file_path |-> file_path])
             /\ last' = Call("open", f, TRUE)
             /\ trip' = NoTrip
             /\ UNCHANGED <<txt, ext>>

\* open(filename) without a file_path
open_internal(f) ==
    IF f \notin DOMAIN meta
    THEN /\ last' = Call("open", f, FALSE)
         /\ trip' = NoTrip
         /\ UNCHANGED <<blocks, nextId, meta, txt, ext, open_files>>
    ELSE /\ open_files' = Put(open_files, f,
                [metadata |-> meta[f], position |-> meta[f].size,
                 external_file |-> FALSE, file_path |-> ""])
         /\ last' = Call("open", f, TRUE)
         /\ trip' = IF trip.stage = 1 /\ last.filename = f
                    THEN [NoTrip EXCEPT !.stage = 2] ELSE NoTrip
         /\ UNCHANGED <<blocks, nextId, meta, txt, ext>>

\* close(filename)
close(f) ==
    /\ open_files' = IF f \in DOMAIN open_files THEN Remove(open_files, f)
                     ELSE open_files
    /\ last' = Call("close", f, f \in DOMAIN open_files)
    /\ trip' = NoTrip
    /\ UNCHANGED <<blocks, nextId, meta, txt, ext>>

\* new_size without the cursor: the length of data against the current size.
NewSizeNoCursor(position, data, current_size) == Len(data)

\* write(): new_size = max(position + len(data), current_version["size"])
NewSize(position, data, current_size) == Max(position + Len(data), current_size)

\* The index of the appended version without the "- 1".
AppendedIndexOff(versions) == Len(versions)

\* write(): metadata["current_version"] = len(metadata["versions"]) - 1,
\* versions being the list after the append.
AppendedIndex(versions) == Len(versions) - 1

\* The number of the new version counted from 1.
VersionNumberFromOne(versions) == Len(versions) + 1

\* write(): "version": len(metadata["versions"]), versions being the list
\* before the append.
VersionNumber(versions) == Len(versions)

\* write(): the value of "return len(data)", data being what the chunk loop
\* left of it.
WriteReturn(data) == Len(data)

\* write(filename, data)
write(f, data) ==
    IF f \notin DOMAIN open_files
    THEN /\ last' = [Call("write", f, FALSE) EXCEPT !.n = -1]
         /\ trip' = NoTrip
         /\ UNCHANGED <<blocks, nextId, meta, txt, ext, open_files>>
    ELSE
    LET file_info == open_files[f]
        metadata == file_info.metadata
        position == file_info.position
        current_version_idx == metadata.current_version
        current_version ==
            IF current_version_idx < 0
            THEN [blocks |-> <<>>, size |-> 0]
            ELSE [blocks |-> PyItem(metadata.versions, current_version_idx).blocks,
                  size |-> PyItem(metadata.versions, current_version_idx).size]
        new_size == NewSize(position, data, current_version.size)
        old_blocks == current_version.blocks
        last_block_id == old_blocks[Len(old_blocks)]
    IN
    IF old_blocks # <<>> /\ last_block_id \notin DOMAIN blocks
    THEN \* _read_block raises FileNotFoundError before anything is written
         /\ last' = [Call("write", f, FALSE) EXCEPT !.raised = TRUE]
         /\ trip' = NoTrip
         /\ UNCHANGED <<blocks, nextId, meta, txt, ext, open_files>>
    ELSE
    LET topup == old_blocks # <<>> /\ Len(blocks[last_block_id]) < block_size
        remaining_space == block_size - Len(blocks[last_block_id])
        topped == IF topup
                  THEN [blocks EXCEPT ![last_block_id] =
                            @ \o PySlice(data, 0, remaining_space)]
                  ELSE blocks
        data1 == IF topup THEN PySlice(data, remaining_space, Len(data)) ELSE data
        split == SplitBlocks(data1)
        n == Len(split.chunks)
        new_blocks == old_blocks \o NewIds(nextId, n)
        new_version == [version |-> VersionNumber(metadata.versions),
                        blocks |-> new_blocks,
                        start |-> 0, end |-> new_size, size |-> new_size]
        versions2 == Append(metadata.versions, new_version)
        metadata2 == [versions |-> versions2,
                      current_version |-> AppendedIndex(versions2),
                      size |-> new_size, blocks |-> new_blocks]
    IN  /\ nextId + n - 1 <= MaxBlocks
        /\ blocks' = WriteBlocks(topped, nextId, split.chunks)
        /\ nextId' = nextId + n
        /\ meta' = Put(meta, f, metadata2)
        /\ open_files' = Put(open_files, f,
               [file_info EXCEPT !.metadata = metadata2, !.position = new_size])
        /\ IF file_info.external_file
           THEN /\ ext' = Put(ext, file_info.file_path,
                              ext[file_info.file_path] \o split.data)
                /\ txt' = txt
           ELSE /\ txt' = Put(txt, f,
                              (IF f \in DOMAIN txt THEN txt[f] ELSE <<>>)
                              \o split.data)
                /\ ext' = ext
        /\ last' = [Call("write", f, TRUE) EXCEPT
                        !.data = data, !.n = WriteReturn(split.data),
                        !.pre = ReadContent(open_files, blocks, f)]
        /\ trip' = IF trip.stage = 2 /\ last.filename = f
                   THEN [stage |-> 3, data |-> data] ELSE NoTrip

\* read(filename)
read(f) ==
    /\ last' = [Call("read", f, TRUE) EXCEPT
                    !.out = ReadContent(open_files, blocks, f)]
    /\ trip' = IF trip.stage = 3 /\ last.filename = f
               THEN [trip EXCEPT !.stage = 4] ELSE NoTrip
    /\ UNCHANGED <<blocks, nextId, meta, txt, ext, open_files>>

\* The refusal test with < in place of <=.
NoEarlierVersionStrict(current_version) == current_version < 0

\* undo(): the test that refuses the call, metadata["current_version"] <= 0
NoEarlierVersion(current_version) == current_version <= 0

\* The size left at that of the newest version of the list.
UndoSizeLatest(versions, idx) == versions[Len(versions)].size

\* undo(): metadata["size"] = metadata["versions"][current_version]["size"],
\* current_version being the index after the decrement.
UndoSize(versions, idx) == PyItem(versions, idx).size

\* undo(filename)
undo(f) ==
    IF f \notin DOMAIN open_files
    THEN /\ last' = Call("undo", f, FALSE)
         /\ trip' = NoTrip
         /\ UNCHANGED <<blocks, nextId, meta, txt, ext, open_files>>
    ELSE
    LET file_info == open_files[f]
        metadata == file_info.metadata
    IN
    IF NoEarlierVersion(metadata.current_version)
    THEN /\ last' = Call("undo", f, FALSE)
         /\ trip' = NoTrip
         /\ UNCHANGED <<blocks, nextId, meta, txt, ext, open_files>>
    ELSE
    LET idx == metadata.current_version - 1
        metadata2 == [metadata EXCEPT !.current_version = idx,
                                      !.size = UndoSize(metadata.versions, idx)]
    IN  /\ meta' = Put(meta, f, metadata2)
        /\ open_files' = Put(open_files, f, [file_info EXCEPT !.metadata = metadata2])
        /\ last' = [Call("undo", f, TRUE) EXCEPT
                        !.follows_write = last.op = "write" /\ last.ok
                                          /\ last.filename = f,
                        !.pre = IF last.op = "write" /\ last.ok
                                   /\ last.filename = f
                                THEN last.pre ELSE <<>>]
        /\ trip' = NoTrip
        /\ UNCHANGED <<blocks, nextId, txt, ext>>

\* delete_blocks(): the data directory is removed and recreated empty
delete_blocks ==
    /\ blocks' = EmptyDir
    /\ last' = Call("delete_blocks", "", TRUE)
    /\ trip' = NoTrip
    /\ UNCHANGED <<nextId, meta, txt, ext, open_files>>

\* delete_metadata(): the metadata directory is removed and recreated empty
delete_metadata ==
    /\ meta' = EmptyDir
    /\ last' = Call("delete_metadata", "", TRUE)
    /\ trip' = NoTrip
    /\ UNCHANGED <<blocks, nextId, txt, ext, open_files>>

\* The chain of the session of f has fewer than limit versions.
CanGrow(f, limit) ==
    f \in DOMAIN open_files => Len(open_files[f].metadata.versions) < limit

Next ==
    \/ \E f \in Files, overwrite \in BOOLEAN : create(f, overwrite)
    \/ \E f \in Files, file_path \in Paths : open_external(f, file_path)
    \/ \E f \in Files : open_internal(f)
    \/ \E f \in Files : close(f)
    \/ \E f \in Files, data \in DataSet : CanGrow(f, MaxVersions) /\ write(f, data)
    \/ \E f \in Files : read(f)
    \/ \E f \in Files : undo(f)
    \/ delete_blocks
    \/ delete_metadata

Spec == Init /\ [][Next]_vars

\* Runs of create, open, write, undo and read alone, with longer chains.
NextChain ==
    \/ \E f \in Files : create(f, FALSE)
    \/ \E f \in Files : open_internal(f)
    \/ \E f \in Files, data \in DataSet : CanGrow(f, MaxChain) /\ write(f, data)
    \/ \E f \in Files : read(f)
    \/ \E f \in Files : undo(f)

SpecChain == Init /\ [][NextChain]_vars

\* Runs of open on the external file, write, undo, read and close alone, with
\* longer chains.
NextExternal ==
    \/ \E f \in Files, file_path \in Paths : open_external(f, file_path)
    \/ \E f \in Files, data \in DataSet : CanGrow(f, MaxChain) /\ write(f, data)
    \/ \E f \in Files : read(f)
    \/ \E f \in Files : undo(f)
    \/ \E f \in Files : close(f)

SpecExternal == Init /\ [][NextExternal]_vars

(***************************************************************************)
(* Properties                                                              *)
(***************************************************************************)

\* The bytes read(f) returns in the current state.
Content(f) == ReadContent(open_files, blocks, f)

\* The version that is current in a chain, or the empty version.
CurrentSize(metadata) ==
    IF metadata.current_version < 0 THEN 0
    ELSE PyItem(metadata.versions, metadata.current_version).size

\* Every block identifier referenced by some version of some persisted chain.
Referenced ==
    UNION {UNION {{meta[f].versions[i].blocks[k] :
                      k \in 1..Len(meta[f].versions[i].blocks)} :
                  i \in 1..Len(meta[f].versions)} :
           f \in DOMAIN meta}

\* C1: round trip. When create(f) on a file that did not exist, open(f),
\* write(f, d) and read(f) are called one after the other, read returns
\* exactly d.
RoundTrip == trip.stage = 4 => last.out = trip.data

\* A round trip of a byte string that needs more than one block has completed.
RoundTripWitness ==
    /\ trip.stage = 4
    /\ last.op = "read"
    /\ Len(trip.data) > block_size
    /\ Len(open_files[last.filename].metadata.versions[1].blocks) = 2

\* C2: write appends. After a successful write(f, d), read(f) returns the
\* bytes read(f) returned just before the write followed by d.
WriteAppends ==
    (last.op = "write" /\ last.ok) =>
        Content(last.filename) = last.pre \o last.data

\* C3: undo reversibility. After a successful write directly followed by a
\* successful undo, read returns what it returned just before that write.
UndoRestores ==
    (last.op = "undo" /\ last.ok /\ last.follows_write) =>
        Content(last.filename) = last.pre

\* C4: block immutability. The bytes stored under an identifier never change
\* while the identifier stays in the store; a step only adds blocks under
\* identifiers that were not in use.
BlocksImmutable ==
    [][\A b \in DOMAIN blocks \cap DOMAIN blocks' : blocks'[b] = blocks[b]]_vars

\* C5: version content is stable. A successful write or undo leaves the
\* bytes of every version already in the persisted chain as they were.
VersionsStable ==
    [][(last'.op \in {"write", "undo"} /\ last'.ok) =>
        \A f \in DOMAIN meta \cap DOMAIN meta' :
            \A i \in 0..(Len(meta[f].versions) - 1) :
                i < Len(meta'[f].versions) =>
                    VersionContent(blocks', meta'[f], i)
                        = VersionContent(blocks, meta[f], i)]_vars

\* C6: reclamation soundness. No step removes from the store a block that
\* some version of some persisted chain references.
ReclamationSound ==
    [][\A b \in DOMAIN blocks \ DOMAIN blocks' : b \notin Referenced]_vars

\* C7: a successful write(f, data) returns len(data).
WriteReturnsLength ==
    (last.op = "write" /\ last.ok) => last.n = Len(last.data)

\* C8: version growth. A successful write appends exactly one version to the
\* chain of the session, leaves the earlier entries in place, makes the new
\* version current, gives it a size no smaller than the size of the version
\* that was current, and persists that chain.
VersionGrowth ==
    [][(last'.op = "write" /\ last'.ok) =>
        LET f == last'.filename
            before == open_files[f].metadata
            after == open_files'[f].metadata
            k == Len(before.versions)
        IN  /\ Len(after.versions) = k + 1
            /\ SubSeq(after.versions, 1, k) = before.versions
            /\ after.versions[k + 1].version = k
            /\ after.current_version = k
            /\ after.versions[k + 1].size >= CurrentSize(before)
            /\ after.size = after.versions[k + 1].size
            /\ meta'[f] = after]_vars

\* A write has grown a chain that already held a version of at least a block.
VersionGrowthWitness ==
    /\ last.op = "write" /\ last.ok
    /\ LET m == open_files[last.filename].metadata
       IN  /\ Len(m.versions) = 2
           /\ m.versions[1].size >= block_size
           /\ m.versions[2].size > m.versions[1].size

\* C9: undo on an open session whose current_version is 0 or -1 returns
\* False and changes nothing: the chain of the session, its cursor, the
\* persisted records and the block store stay as they were.
UndoRefused ==
    [][\A f \in DOMAIN open_files :
        (last'.op = "undo" /\ last'.filename = f
         /\ open_files[f].metadata.current_version <= 0) =>
            /\ ~last'.ok
            /\ UNCHANGED <<blocks, nextId, meta, txt, ext, open_files>>]_vars

\* An undo was refused on a session whose chain has one version, current.
UndoRefusedWitness ==
    /\ last.op = "undo" /\ ~last.ok
    /\ last.filename \in DOMAIN open_files
    /\ open_files[last.filename].metadata.current_version = 0
    /\ Len(open_files[last.filename].metadata.versions) >= 1

\* C10: create(f, overwrite=False) on a file whose metadata record exists
\* returns True and leaves the record as it was.
CreateKeepsRecord ==
    [][\A f \in DOMAIN meta :
        (last'.op = "create" /\ last'.filename = f /\ ~last'.overwrite) =>
            /\ last'.ok
            /\ f \in DOMAIN meta'
            /\ meta'[f] = meta[f]]_vars

\* C11: after create(f, overwrite=True) the persisted chain of f is the empty
\* chain (no versions, current_version -1, size 0), whatever was there before.
OverwriteGivesEmptyChain ==
    (last.op = "create" /\ last.overwrite) =>
        /\ last.ok
        /\ last.filename \in DOMAIN meta
        /\ meta[last.filename].versions = <<>>
        /\ meta[last.filename].current_version = -1
        /\ meta[last.filename].size = 0

\* create(f, overwrite=True) was called on a file with a base file and a
\* chain of two versions, which the session opened before still holds.
OverwriteWitness ==
    /\ last.op = "create" /\ last.overwrite
    /\ last.filename \in DOMAIN open_files
    /\ ~open_files[last.filename].external_file
    /\ Len(open_files[last.filename].metadata.versions) = 2
    /\ meta[last.filename] = EmptyMetadata

\* C12: write, read, undo and close on a file that has no open session fail
\* (write returns -1, read returns no bytes, undo and close return False)
\* and leave the persisted records, the block store and open_files alone.
NotOpenFails ==
    [][\A f \in Files \ DOMAIN open_files :
        (last'.filename = f /\ last'.op \in {"write", "read", "undo", "close"}) =>
            /\ last'.op = "write" => (~last'.ok /\ last'.n = -1 /\ ~last'.raised)
            /\ last'.op = "read" => last'.out = <<>>
            /\ last'.op \in {"undo", "close"} => ~last'.ok
            /\ UNCHANGED <<blocks, nextId, meta, txt, ext, open_files>>]_vars

\* write returned -1 for a file that is not open while its record persists a
\* version with content.
NotOpenWitness ==
    /\ last.op = "write" /\ last.n = -1
    /\ last.filename \notin DOMAIN open_files
    /\ last.filename \in DOMAIN meta
    /\ meta[last.filename].current_version >= 0
    /\ meta[last.filename].size > 0

\* C13: in every chain, of a session or persisted, current_version is -1 or
\* an index into versions.
ValidIndex(metadata) ==
    \/ metadata.current_version = -1
    \/ /\ 0 <= metadata.current_version
       /\ metadata.current_version < Len(metadata.versions)

CurrentVersionValid ==
    /\ \A f \in DOMAIN meta : ValidIndex(meta[f])
    /\ \A f \in DOMAIN open_files : ValidIndex(open_files[f].metadata)

\* A chain of two versions whose current version is the first, after an undo.
CurrentVersionWitness ==
    /\ last.op = "undo" /\ last.ok
    /\ meta[last.filename].current_version = 0
    /\ Len(meta[last.filename].versions) = 2
    /\ open_files[last.filename].metadata = meta[last.filename]

\* The block list of the version that is current in a chain.
CurrentBlocks(metadata) ==
    IF metadata.current_version < 0 THEN <<>>
    ELSE PyItem(metadata.versions, metadata.current_version).blocks

\* C14: a successful undo moves current_version back by one, and after every
\* successful open, write or undo the size of the chain and the cursor of
\* the session both equal the size of the current version.
CursorAtCurrentSize ==
    [][(last'.op \in {"open", "write", "undo"} /\ last'.ok) =>
        LET f == last'.filename
            after == open_files'[f]
        IN  /\ after.metadata.size = CurrentSize(after.metadata)
            /\ after.position = CurrentSize(after.metadata)
            /\ last'.op = "undo" =>
                   after.metadata.current_version =
                       open_files[f].metadata.current_version - 1]_vars

\* C15: read is relative to the cursor. With the cursor at or past the size
\* of the current version it returns no bytes; otherwise it returns the bytes
\* from the cursor onward and moves the cursor by their number.
ReadCursorRelative ==
    [][\A f \in DOMAIN open_files :
        (last'.op = "read" /\ last'.filename = f
         /\ open_files[f].metadata.current_version >= 0) =>
            LET pos == open_files[f].position
                total == CurrentSize(open_files[f].metadata)
            IN  IF pos >= total
                THEN last'.out = <<>>
                ELSE /\ Len(last'.out) = total - pos
                     /\ open_files'[f].position = pos + Len(last'.out)]_vars

\* C15, amended: read takes no account of the cursor and does not move it.
\* On an open session it returns the bytes that the block list and the range
\* [start, end) of the current version reconstruct, as the version reader
\* returns them for that index; it returns no bytes when the chain has no
\* current version or a block of it is missing; it changes nothing.
ReadWholeVersion ==
    [][\A f \in DOMAIN open_files :
        (last'.op = "read" /\ last'.filename = f) =>
            LET metadata == open_files[f].metadata
                idx == metadata.current_version
            IN  /\ UNCHANGED <<blocks, nextId, meta, txt, ext, open_files>>
                /\ idx < 0 => last'.out = <<>>
                /\ idx >= 0 =>
                       LET r == VersionContent(blocks, metadata, idx)
                       IN  last'.out = IF r.ok THEN r.content ELSE <<>>]_vars

\* read returned the three bytes of a two-block version with the cursor at
\* the end of it.
ReadWholeWitness ==
    /\ last.op = "read"
    /\ last.filename \in DOMAIN open_files
    /\ Len(last.out) = 3
    /\ Len(CurrentBlocks(open_files[last.filename].metadata)) = 2
    /\ open_files[last.filename].position >= 3

\* C16: on a session opened on an external path a successful write(f, data)
\* appends the bytes of data to the file at that path, and the file then
\* holds the content of the current version.
ExternalMirrorsWrites ==
    [][\A f \in DOMAIN open_files :
        (last'.op = "write" /\ last'.ok /\ last'.filename = f
         /\ open_files[f].external_file) =>
            LET p == open_files[f].file_path
            IN  /\ ext'[p] = ext[p] \o last'.data
                /\ ext'[p] = ReadContent(open_files', blocks', f)]_vars

\* C17: on a session opened on an external path a successful undo leaves the
\* file at that path holding the content of the version that became current.
UndoRewritesExternal ==
    \A f \in DOMAIN open_files :
        (last.op = "undo" /\ last.ok /\ last.filename = f
         /\ open_files[f].external_file) =>
            ext[open_files[f].file_path] = Content(f)

\* C18: chunking. A successful write of n bytes stores ceil(n / block_size)
\* new blocks, each of at most block_size bytes and all but the last of
\* exactly block_size bytes, and the block list of the new version is the
\* list of the version that was current followed by the new identifiers.
Chunking ==
    [][\A f \in DOMAIN open_files :
        (last'.op = "write" /\ last'.ok /\ last'.filename = f) =>
            LET before == CurrentBlocks(open_files[f].metadata)
                after == CurrentBlocks(open_files'[f].metadata)
                n == Len(last'.data)
                k == (n + block_size - 1) \div block_size
            IN  /\ Len(after) = Len(before) + k
                /\ SubSeq(after, 1, Len(before)) = before
                /\ DOMAIN blocks' \ DOMAIN blocks =
                       {after[j] : j \in (Len(before) + 1)..Len(after)}
                /\ \A j \in 1..k :
                       LET b == after[Len(before) + j]
                       IN  /\ b \in DOMAIN blocks'
                           /\ Len(blocks'[b]) <= block_size
                           /\ j < k => Len(blocks'[b]) = block_size]_vars

\* C19: a read of a current version one of whose blocks is missing from the
\* store ends in an error the caller can tell from a read of an empty file.
BlockMissingSurfaced ==
    \A f \in DOMAIN open_files :
        (last.op = "read" /\ last.filename = f
         /\ open_files[f].metadata.current_version >= 0
         /\ ~VersionContent(blocks, open_files[f].metadata,
                            open_files[f].metadata.current_version).ok) =>
            (last.raised \/ ~last.ok)

\* C20: the version list is append-only. A successful write keeps every
\* earlier entry as it was, a successful undo changes nothing of the chain
\* but current_version and size, and in every chain the entry at index i
\* carries the version number i.
Numbered(metadata) ==
    \A i \in 1..Len(metadata.versions) : metadata.versions[i].version = i - 1

VersionsAppendOnly ==
    [][/\ \A f \in DOMAIN open_files :
            (last'.op \in {"write", "undo"} /\ last'.ok /\ last'.filename = f) =>
                LET before == open_files[f].metadata
                    after == open_files'[f].metadata
                    k == Len(before.versions)
                IN  /\ Len(after.versions) >= k
                    /\ SubSeq(after.versions, 1, k) = before.versions
                    /\ meta'[f] = after
                    /\ last'.op = "undo" =>
                           after = [before EXCEPT
                                       !.current_version = after.current_version,
                                       !.size = after.size]
       /\ \A f \in DOMAIN meta' : Numbered(meta'[f])
       /\ \A f \in DOMAIN open_files' : Numbered(open_files'[f].metadata)]_vars

\* A write has appended version 1 to a chain whose version 0 shares its last
\* block with it.
AppendOnlyWitness ==
    /\ last.op = "write" /\ last.ok
    /\ LET m == open_files[last.filename].metadata
       IN  /\ Len(m.versions) = 2
           /\ m.versions[2].version = 1
           /\ m.versions[1].blocks # <<>>
           /\ m.versions[2].blocks = m.versions[1].blocks
           /\ m.versions[2].size > m.versions[1].size

\* The number of bytes that reconstructing version i (0-based) of a chain
\* from its block list and byte range yields.
ReconstructedSize(metadata, i) == Len(VersionContent(blocks, metadata, i).content)

\* The recorded size of every version of a chain equals end - start and the
\* number of bytes its reconstruction yields.
SizesExact(metadata) ==
    \A i \in 1..Len(metadata.versions) :
        /\ metadata.versions[i].size =
               metadata.versions[i].end - metadata.versions[i].start
        /\ metadata.versions[i].size = ReconstructedSize(metadata, i - 1)

\* C21: in every reachable state, for every version of every chain, the
\* recorded size equals end - start and equals the number of bytes that
\* reconstructing the version from its block list and byte range yields.
RecordedSizeExact ==
    /\ \A f \in DOMAIN meta : SizesExact(meta[f])
    /\ \A f \in DOMAIN open_files : SizesExact(open_files[f].metadata)

\* C22: session and store agree. After every operation the chain held by
\* the session of an open file equals the chain persisted for that file,
\* and a successful write through the session persists the chain that was
\* persisted before it with one version appended.
SessionStoreAgree ==
    [][/\ \A f \in DOMAIN open_files' :
            /\ f \in DOMAIN meta'
            /\ meta'[f] = open_files'[f].metadata
       /\ \A f \in DOMAIN open_files :
            (last'.op = "write" /\ last'.ok /\ last'.filename = f) =>
                /\ f \in DOMAIN meta
                /\ Len(meta'[f].versions) = Len(meta[f].versions) + 1
                /\ SubSeq(meta'[f].versions, 1, Len(meta[f].versions)) =
                       meta[f].versions]_vars

\* C23: in every reachable state the size of every chain equals the size of
\* the version at current_version, or 0 when current_version is -1.
ChainSizeIsCurrent ==
    /\ \A f \in DOMAIN meta : meta[f].size = CurrentSize(meta[f])
    /\ \A f \in DOMAIN open_files :
            open_files[f].metadata.size = CurrentSize(open_files[f].metadata)

\* An undo has moved a chain back onto a version whose size differs from
\* that of the version it left.
ChainSizeWitness ==
    /\ last.op = "undo" /\ last.ok
    /\ LET m == meta[last.filename]
       IN  /\ m.current_version >= 0
           /\ m.current_version + 2 <= Len(m.versions)
           /\ m.size = m.versions[m.current_version + 1].size
           /\ m.size # m.versions[m.current_version + 2].size
====
